---- MODULE Spec2Model ----
(***************************************************************************)
(* TwitterSpaceClient (packages/plugin-twitter/src/spaces.ts) as a state   *)
(* machine.  The class runs on a single-threaded event loop: every `await` *)
(* of a remote call is a suspension point, and the code between two        *)
(* suspension points of one async call is one atomic step.  Each async     *)
(* call in flight is a task with a position (pc) and its locals.           *)
(***************************************************************************)
EXTENDS Integers, Sequences, FiniteSets, TLC

(* ------------------------------ bounds -------------------------------- *)
\* distinct user ids that request to speak / are reported by the room
NumUsers == 2
\* speakerRequest events over a run
MaxReq == 2
\* Space objects constructed over a run (calls of startSpace)
MaxSpaces == 1
\* joinSpace calls that pass the status guard over a run
MaxJoins == 1
\* Date.now() of the initial state, in ms
Epoch == 2000000
\* startSpace calls of the control loop over a run
MaxLaunches == 2

(* ------------------------- program constants --------------------------- *)
maxSpeakers == 1
typicalDurationMinutes == 30
speakerMaxDurationMs == 240000
emptyCloseMinutes == 5
msPerMinute == 60000
enableIdleMonitor == TRUE
minIntervalBetweenSpacesMinutes == 60

None == 0
IDLE == "idle"
HOSTING == "hosting"
PARTICIPATING == "participating"

Users == 1..NumUsers

\* instants Date.now() takes: the session's first instant and the instants
\* around each threshold the code compares an elapsed time with
TimePoints ==
    { Epoch,
      Epoch + speakerMaxDurationMs - 1,
      Epoch + speakerMaxDurationMs,
      Epoch + speakerMaxDurationMs + 1,
      Epoch + emptyCloseMinutes * msPerMinute,
      Epoch + emptyCloseMinutes * msPerMinute + 1,
      Epoch + typicalDurationMinutes * msPerMinute,
      Epoch + typicalDurationMinutes * msPerMinute + 1 }

\* outcomes of an awaited speakFiller call (TRUE: it returned, FALSE: it
\* rejected)
FillerOutcomes == BOOLEAN

VARIABLES
    spaceStatus,        \* this.spaceStatus
    currentSpace,       \* this.currentSpace: a Space object (its number) or None
    spaceId,            \* this.spaceId
    startedAt,          \* this.startedAt (None: undefined)
    lastSpaceEndedAt,   \* this.lastSpaceEndedAt (None: undefined)
    activeSpeakers,     \* this.activeSpeakers
    speakerQueue,       \* this.speakerQueue
    spaceParticipant,   \* this.spaceParticipant (FALSE: null)
    now,                \* Date.now()
    rooms,              \* the Space objects constructed so far: "new" | "open" | "closed"
    wired,              \* the Space objects startSpace has registered its handlers on
    partJoined,         \* the participant handle has joined a Space as listener
    nextUUID,           \* the next speakerRequest event's sessionUUID
    handlers,           \* handleSpeakerRequest calls in flight
    tick,               \* the manageCurrentSpace call in flight
    stopT,              \* a stopSpace call in flight (a caller other than the tick)
    startT,             \* the startSpace call in flight
    joinT,              \* the joinSpace call in flight
    waits,              \* the waitForApproval promises created so far
    loop,               \* the control loop: its routine in progress, its timers
    last                \* what the last step did: a sequence of events

fields ==
    <<spaceStatus, currentSpace, spaceId, startedAt, lastSpaceEndedAt,
      activeSpeakers, speakerQueue, spaceParticipant>>

env == <<now, rooms, wired, partJoined, nextUUID>>

tasks == <<handlers, tick, stopT, startT, joinT, waits>>

vars == <<fields, env, tasks, loop, last>>

Ev(e, a, b, c) == [ev |-> e, a |-> a, b |-> b, c |-> c]

Did(e) == \E n \in DOMAIN last : last[n].ev = e

Bit(p) == IF p THEN 1 ELSE 0

\* the event of a speakFiller call that rejected, k telling which call:
\* 1 WELCOME (startSpace), 2 PRE_ACCEPT (handleSpeakerRequest),
\* 3 SPEAKER_LEFT, 4 PRE_ACCEPT (queue drain), 5 CLOSING (auto-close),
\* 6 IDLE_ENDING (idleTimeout handler), 7 CLOSING (SIGINT handler)
FillerFailed(k) == Ev("filler.failed", k, 0, 0)

(* ------------------------------ helpers ------------------------------- *)

\* Array.prototype.splice(i, 1) at the 1-based position i
Splice(list, i) ==
    IF i \in 1..Len(list)
    THEN SubSeq(list, 1, i - 1) \o SubSeq(list, i + 1, Len(list))
    ELSE list

\* Array.prototype.findIndex((s) => s.userId === uid), 1-based; 0 for -1
FindIndex(list, uid) ==
    IF \E n \in 1..Len(list) : list[n].userId = uid
    THEN CHOOSE n \in 1..Len(list) :
             /\ list[n].userId = uid
             /\ \A m \in 1..(n - 1) : list[m].userId # uid
    ELSE 0

\* the lists of distinct users a room can report as its speakers
Reports ==
    { l \in UNION { [1..n -> Users] : n \in 0..NumUsers } :
          \A p, q \in 1..Len(l) : p # q => l[p] # l[q] }

ListenerCounts == {0, 1}

TaskIdle == [pc |-> "idle"]

NoReq == [userId |-> 0, sessionUUID |-> 0]

TickIdle ==
    [pc |-> "idle", now |-> 0, speakers |-> <<>>, listeners |-> 0,
     i |-> 0, k |-> 0, req |-> NoReq]

\* the control loop before startPeriodicSpaceCheck: no routine in progress
\* (running), no timer pending (timers), this.checkInterval undefined;
\* stopped tells that stopPeriodicCheck has returned
LoopIdle ==
    [started |-> FALSE, enableSpaceHosting |-> FALSE, pc |-> "idle",
     launch |-> FALSE, running |-> 0, timers |-> 0, outcome |-> "none",
     checkInterval |-> FALSE, stopped |-> FALSE]

Init ==
    /\ spaceStatus = IDLE
    /\ currentSpace = None
    /\ spaceId = None
    /\ startedAt = None
    /\ lastSpaceEndedAt = None
    /\ activeSpeakers = <<>>
    /\ speakerQueue = <<>>
    /\ spaceParticipant = FALSE
    /\ now = Epoch
    /\ rooms = <<>>
    /\ wired = {}
    /\ partJoined = FALSE
    /\ nextUUID = 1
    /\ handlers = {}
    /\ tick = TickIdle
    /\ stopT = TaskIdle
    /\ startT = TaskIdle
    /\ joinT = TaskIdle
    /\ waits = <<>>
    /\ loop = LoopIdle
    /\ last = <<>>

(* ------------------------------- time --------------------------------- *)

\* Date.now() moves on.  A run observes the clock at Epoch and at one later
\* instant: every elapsed time the code computes is 0 or that instant - Epoch.

AdvanceTime ==
    /\ now = Epoch
    /\ \E t \in TimePoints : t > now /\ now' = t
    /\ last' = <<Ev("time", 0, 0, 0)>>
    /\ UNCHANGED <<fields, rooms, wired, partJoined, nextUUID, tasks>>
    /\ UNCHANGED loop

(* ----------------------------- stopSpace ------------------------------ *)

\* the early return of stopSpace
StopGuard == currentSpace = None \/ spaceStatus = IDLE

\* the finally block of stopSpace
StopFinally ==
    /\ spaceStatus' = IDLE
    /\ spaceId' = None
    /\ currentSpace' = None
    /\ startedAt' = None
    /\ lastSpaceEndedAt' = now
    /\ activeSpeakers' = <<>>
    /\ speakerQueue' = <<>>

\* the room's stop() is called on the Space object h (undefined: a TypeError
\* the catch logs)
CloseRoom(h) ==
    IF h \in DOMAIN rooms THEN [rooms EXCEPT ![h] = "closed"] ELSE rooms

\* stopSpace with the reset at the end of the try block instead of a finally
\* block: a failed stop() of the room skips it
StopResetInTry(ok) ==
    IF ok
    THEN StopFinally
    ELSE UNCHANGED <<spaceStatus, spaceId, currentSpace, startedAt,
                     lastSpaceEndedAt, activeSpeakers, speakerQueue>>

\* what stopSpace does once `await this.currentSpace.stop()` has settled,
\* ok telling whether it resolved: the catch logs, the finally block runs
StopSettled(ok) == StopFinally

\* whether stopSpace rejects when the room's stop() settled with ok
StopThrows(ok) == FALSE

\* stopSpace() called by the idleTimeout handler, the SIGINT handler or
\* any other caller of the public method
StopCall ==
    /\ stopT.pc = "idle"
    /\ IF StopGuard
       THEN /\ last' = <<Ev("stop.noop", 0, 0, 0)>>
            /\ UNCHANGED <<fields, env, tasks>>
       ELSE /\ rooms' = CloseRoom(currentSpace)
            /\ stopT' = [pc |-> "stopping"]
            /\ last' = <<Ev("stop.call", 0, 0, 0)>>
            /\ UNCHANGED <<fields, now, wired, partJoined, nextUUID,
                           handlers, tick, startT, joinT, waits>>
    /\ UNCHANGED loop

StopSettle ==
    /\ stopT.pc = "stopping"
    /\ \E ok \in BOOLEAN :
           /\ StopSettled(ok)
           /\ last' = <<Ev("stop.done", Bit(ok), Bit(StopThrows(ok)), 0),
                        Ev("stop.had", Len(activeSpeakers), Len(speakerQueue), 0)>>
    /\ stopT' = TaskIdle
    /\ UNCHANGED <<spaceParticipant, env, handlers, tick, startT, joinT, waits>>
    /\ UNCHANGED loop

\* the room emits "idleTimeout" (by = 6) or the process receives SIGINT
\* (by = 7): the handler startSpace registered runs up to
\* `await speakFiller(..)`
EndingHandler ==
    /\ stopT.pc = "idle"
    /\ \E by \in {6, 7} :
        /\ by = 6 => \E h \in wired : rooms[h] = "open"
        /\ by = 7 => wired # {}
        /\ stopT' = [pc |-> "filler", by |-> by]
        /\ last' = <<Ev("ending", by, 0, 0)>>
    /\ UNCHANGED <<fields, env, handlers, tick, startT, joinT, waits, loop>>

\* the filler of the handler settled: stopSpace() up to
\* `await this.currentSpace.stop()`, or the handler's promise rejects
EndingFilled ==
    /\ stopT.pc = "filler"
    /\ \E ok \in FillerOutcomes :
        IF ~ok
        THEN /\ stopT' = TaskIdle
             /\ last' = <<FillerFailed(stopT.by), Ev("ending.throw", stopT.by, 0, 0)>>
             /\ UNCHANGED rooms
        ELSE IF StopGuard
        THEN /\ stopT' = TaskIdle
             /\ last' = <<Ev("stop.noop", 0, 0, 2)>>
             /\ UNCHANGED rooms
        ELSE /\ rooms' = CloseRoom(currentSpace)
             /\ stopT' = [pc |-> "stopping"]
             /\ last' = <<Ev("stop.call", 0, 0, 2)>>
    /\ UNCHANGED <<fields, now, wired, partJoined, nextUUID,
                   handlers, tick, startT, joinT, waits, loop>>

EndingNext == EndingHandler \/ EndingFilled \/ StopSettle

(* -------------------- startPeriodicSpaceCheck: re-arming --------------- *)

\* the routine arms the timer of the next tick and ends, outcome telling
\* what this tick did
LoopRearm(l, outcome) ==
    [l EXCEPT !.pc = "idle", !.running = @ - 1, !.timers = @ + 1,
              !.outcome = outcome, !.checkInterval = TRUE]

\* a routine whose catch block arms nothing
LoopCatchNoTimer(l) ==
    [l EXCEPT !.pc = "idle", !.running = @ - 1, !.outcome = "threw"]

\* the catch block of the routine: the error logged, the next tick armed
LoopCatch(l) == LoopRearm(l, "threw")

\* the routine awaiting startSpace goes on when startSpace settles: past
\* the await when it returned, in its catch block when it threw
LoopAfterStart(threw) ==
    IF loop.pc = "start"
    THEN IF threw THEN LoopCatch(loop) ELSE LoopRearm(loop, "launched")
    ELSE loop

(* ----------------------------- startSpace ----------------------------- *)

\* a catch block of startSpace that logs and leaves the status as it is
StartCatchKeepsStatus ==
    /\ UNCHANGED spaceStatus
    /\ startT' = TaskIdle
    /\ loop' = LoopAfterStart(TRUE)

\* the catch block of startSpace: status back to IDLE, the error rethrown
\* to the caller
StartCatch ==
    /\ spaceStatus' = IDLE
    /\ startT' = TaskIdle
    /\ loop' = LoopAfterStart(TRUE)

\* startSpace(config) up to `await this.currentSpace.initialize(config)`,
\* max bounding the Space objects of the run
StartEnter(max) ==
    /\ startT.pc = "idle"
    /\ Len(rooms) < max
    /\ currentSpace' = Len(rooms) + 1
    /\ rooms' = Append(rooms, "new")
    /\ spaceStatus' = IDLE
    /\ spaceId' = None
    /\ startedAt' = now
    /\ activeSpeakers' = <<>>
    /\ speakerQueue' = <<>>
    /\ startT' = [pc |-> "initialize", h |-> Len(rooms) + 1]
    /\ UNCHANGED <<lastSpaceEndedAt, spaceParticipant, now, wired, partJoined,
                   nextUUID, handlers, tick, stopT, joinT, waits>>

\* startSpace(config) called by a caller other than the routine
StartCall ==
    /\ StartEnter(MaxSpaces)
    /\ last' = <<Ev("start.call", 0, 0, 0)>>
    /\ UNCHANGED loop

\* initialize settled: spaceId, the plugins, HOSTING, then `await sendTweet`
StartInitialized ==
    /\ startT.pc = "initialize"
    /\ \E ok \in BOOLEAN :
        IF ok
        THEN /\ rooms' = [rooms EXCEPT ![startT.h] =
                              IF @ = "new" THEN "open" ELSE @]
             /\ spaceId' = startT.h
             /\ IF enableIdleMonitor /\ currentSpace = None
                THEN \* this.currentSpace.use(...) on undefined: TypeError
                     /\ StartCatch
                     /\ last' = <<Ev("start.throw", 0, 1, 0)>>
                ELSE /\ spaceStatus' = HOSTING
                     /\ startT' = [startT EXCEPT !.pc = "sendTweet"]
                     /\ last' = <<Ev("start.hosting", 0, 0, 0)>>
                     /\ UNCHANGED loop
        ELSE /\ StartCatch
             /\ last' = <<Ev("start.throw", 0, 0, 0)>>
             /\ UNCHANGED <<rooms, spaceId>>
    /\ UNCHANGED <<currentSpace, startedAt, lastSpaceEndedAt, activeSpeakers,
                   speakerQueue, spaceParticipant, now, wired, partJoined,
                   nextUUID, handlers, tick, stopT, joinT, waits>>

\* sendTweet settled: then `await speakFiller(.., "WELCOME")`
StartTweeted ==
    /\ startT.pc = "sendTweet"
    /\ \E ok \in BOOLEAN :
        IF ok
        THEN /\ startT' = [startT EXCEPT !.pc = "welcome"]
             /\ last' = <<Ev("start.tweeted", 0, 0, 0)>>
             /\ UNCHANGED <<spaceStatus, loop>>
        ELSE /\ StartCatch
             /\ last' = <<Ev("start.throw", 0, 2, 0)>>
    /\ UNCHANGED <<currentSpace, spaceId, startedAt, lastSpaceEndedAt,
                   activeSpeakers, speakerQueue, spaceParticipant, env,
                   handlers, tick, stopT, joinT, waits>>

\* the WELCOME filler settled: the event handlers are registered on
\* this.currentSpace
StartWelcomed ==
    /\ startT.pc = "welcome"
    /\ \E ok \in FillerOutcomes :
        IF ok /\ currentSpace # None
        THEN /\ wired' = wired \cup {currentSpace}
             /\ startT' = TaskIdle
             /\ loop' = LoopAfterStart(FALSE)
             /\ last' = <<Ev("start.done", 0, 0, 0)>>
             /\ UNCHANGED spaceStatus
        ELSE \* the filler threw, or this.currentSpace.on(...) on undefined
             /\ StartCatch
             /\ last' = IF ok THEN <<Ev("start.throw", 0, 4, 0)>>
                        ELSE <<FillerFailed(1), Ev("start.throw", 0, 3, 0)>>
             /\ UNCHANGED wired
    /\ UNCHANGED <<currentSpace, spaceId, startedAt, lastSpaceEndedAt,
                   activeSpeakers, speakerQueue, spaceParticipant, now, rooms,
                   partJoined, nextUUID, handlers, tick, stopT, joinT, waits>>

(* ------------------- handleSpeakerRequest / acceptSpeaker -------------- *)

\* the entry acceptSpeaker pushes onto activeSpeakers
ActiveEntry(req) ==
    [userId |-> req.userId, sessionUUID |-> req.sessionUUID, startTime |-> now]

\* handleSpeakerRequest: the room has a free slot when it reports n speakers
RoomHasSlot(n) == n < maxSpeakers

\* the room emits "speakerRequest": handleSpeakerRequest(req) up to
\* `await this.scraper.getAudioSpaceById(this.spaceId)`
SpeakerRequest ==
    /\ nextUUID <= MaxReq
    /\ \E h \in wired : rooms[h] = "open"
    /\ \E u \in Users :
        LET req == [userId |-> u, sessionUUID |-> nextUUID]
        IN  IF spaceId = None \/ currentSpace = None
            THEN /\ last' = <<Ev("request.ignored", 0, 0, 0)>>
                 /\ UNCHANGED handlers
            ELSE /\ handlers' = handlers \cup {[req |-> req, pc |-> "query"]}
                 /\ last' = <<Ev("request", 0, 0, 0)>>
    /\ nextUUID' = nextUUID + 1
    /\ UNCHANGED <<fields, now, rooms, wired, partJoined,
                   tick, stopT, startT, joinT, waits>>
    /\ UNCHANGED loop

\* getAudioSpaceById settled with n speakers: accept now, or queue
HandlerQueried ==
    /\ \E t \in handlers, n \in 0..NumUsers :
        /\ t.pc = "query"
        /\ IF RoomHasSlot(n)
           THEN /\ handlers' = (handlers \ {t}) \cup {[t EXCEPT !.pc = "filler"]}
                /\ last' = <<Ev("request.accepting", 0, 0, 0)>>
                /\ UNCHANGED speakerQueue
           ELSE /\ speakerQueue' = Append(speakerQueue, t.req)
                /\ handlers' = handlers \ {t}
                /\ last' = <<Ev("request.queued", 0, 0, 0)>>
    /\ UNCHANGED <<spaceStatus, currentSpace, spaceId, startedAt,
                   lastSpaceEndedAt, activeSpeakers, spaceParticipant, env,
                   tick, stopT, startT, joinT, waits>>
    /\ UNCHANGED loop

\* the PRE_ACCEPT filler settled: acceptSpeaker(req) up to
\* `await this.currentSpace.approveSpeaker(..)`
HandlerFilled ==
    /\ \E t \in handlers, ok \in FillerOutcomes :
        /\ t.pc = "filler"
        /\ IF ok /\ currentSpace # None
           THEN /\ handlers' = (handlers \ {t}) \cup {[t EXCEPT !.pc = "approve"]}
                /\ last' = <<Ev("request.approving", 0, 0, 0)>>
           ELSE /\ handlers' = handlers \ {t}
                /\ last' = IF ok THEN <<Ev("request.dropped", 0, 0, 0)>>
                           ELSE <<FillerFailed(2), Ev("request.dropped", 0, 0, 0)>>
    /\ UNCHANGED <<fields, env, tick, stopT, startT, joinT, waits>>
    /\ UNCHANGED loop

\* approveSpeaker settled: push the speaker, or log the error
HandlerApproved ==
    /\ \E t \in handlers, ok \in BOOLEAN :
        /\ t.pc = "approve"
        /\ handlers' = handlers \ {t}
        /\ IF ok
           THEN /\ activeSpeakers' = Append(activeSpeakers, ActiveEntry(t.req))
                /\ last' = <<Ev("accepted", t.req.sessionUUID, 0, 0)>>
           ELSE /\ last' = <<Ev("approve.failed", t.req.sessionUUID, 0, 0)>>
                /\ UNCHANGED activeSpeakers
    /\ UNCHANGED <<spaceStatus, currentSpace, spaceId, startedAt,
                   lastSpaceEndedAt, speakerQueue, spaceParticipant, env,
                   tick, stopT, startT, joinT, waits>>
    /\ UNCHANGED loop

(* -------------------------- manageCurrentSpace ------------------------- *)

\* step 1: the speaker has exceeded speakerMaxDurationMs
Overdue(elapsed) == elapsed > speakerMaxDurationMs

\* an auto-close condition without the empty-room disjunct
ShouldStopDurationOnly(elapsedMs, numSpeakers, totalListeners) ==
    elapsedMs > typicalDurationMinutes * msPerMinute

\* step 4: the auto-close condition, elapsedMinutes = elapsedMs / 60000
ShouldStop(elapsedMs, numSpeakers, totalListeners) ==
    \/ elapsedMs > typicalDurationMinutes * msPerMinute
    \/ /\ numSpeakers = 0
       /\ totalListeners = 0
       /\ elapsedMs > emptyCloseMinutes * msPerMinute

\* the reverse loop of step 1 from position i down, up to its next await:
\* the position of the next speaker to remove, the end of the loop, or the
\* TypeError of reading startTime of an entry that is no longer there
RECURSIVE ScanEvict(_, _, _)
ScanEvict(list, i, tnow) ==
    IF i < 1 THEN [kind |-> "end", i |-> 0]
    ELSE IF i > Len(list) THEN [kind |-> "throw", i |-> i]
    ELSE IF Overdue(tnow - list[i].startTime) THEN [kind |-> "evict", i |-> i]
    ELSE ScanEvict(list, i - 1, tnow)

\* kickExtraSpeakers: speakers.slice(ms)
Extras(speakers) == SubSeq(speakers, maxSpeakers + 1, Len(speakers))

\* kickExtraSpeakers: drop the first entry of userId uid, if any
DropUser(list, uid) ==
    IF FindIndex(list, uid) # 0 THEN Splice(list, FindIndex(list, uid)) ELSE list

\* the rest of the loop of kickExtraSpeakers from extras[k] on, when
\* removeSpeaker returns at once (no currentSpace)
RECURSIVE KickRest(_, _, _)
KickRest(list, extras, k) ==
    IF k > Len(extras) THEN list
    ELSE KickRest(DropUser(list, extras[k]), extras, k + 1)

tickFrame ==
    <<spaceStatus, currentSpace, spaceId, startedAt, lastSpaceEndedAt,
      spaceParticipant, env, handlers, stopT, startT, joinT, waits>>

\* step 4, with the locals t, activeSpeakers = list and speakerQueue = q
CloseStep(t, list, q, evs) ==
    LET elapsedMs == t.now - startedAt
    IN  /\ activeSpeakers' = list
        /\ speakerQueue' = q
        /\ IF ShouldStop(elapsedMs, Len(t.speakers), t.listeners)
           THEN /\ tick' = [t EXCEPT !.pc = "closing"]
                /\ last' = Append(evs, Ev("tick.closing", elapsedMs,
                                          Len(t.speakers), t.listeners))
           ELSE /\ tick' = TickIdle
                /\ last' = Append(evs, Ev("tick.stay", elapsedMs,
                                          Len(t.speakers), t.listeners))

\* step 3: kickExtraSpeakers up to its first `await this.removeSpeaker(..)`
TrimStep(t, list, q, evs) ==
    IF Len(t.speakers) > maxSpeakers /\ currentSpace # None
    THEN /\ activeSpeakers' = list
         /\ speakerQueue' = q
         /\ tick' = [t EXCEPT !.pc = "kick", !.k = 1]
         /\ last' = Append(evs, Ev("tick.kick", 0, 0, 0))
    ELSE CloseStep(t, list, q, evs)

\* step 2: acceptSpeakersFromQueueIfNeeded up to its next await
DrainStep(t, list, q, evs) ==
    IF Len(q) > 0 /\ Len(list) < maxSpeakers
    THEN /\ activeSpeakers' = list
         /\ speakerQueue' = Tail(q)
         /\ tick' = [t EXCEPT !.pc = "preAccept", !.req = Head(q)]
         /\ last' = Append(evs, Ev("tick.shift", 0, 0, 0))
    ELSE TrimStep(t, list, q, evs)

\* step 1 from position i down, up to its next await
ScanStep(t, list, q, i, evs) ==
    LET r == ScanEvict(list, i, t.now)
    IN  CASE r.kind = "throw" ->
               /\ activeSpeakers' = list
               /\ speakerQueue' = q
               /\ tick' = TickIdle
               /\ last' = Append(evs, Ev("tick.throw", 0, 0, 0))
          [] r.kind = "evict" ->
               LET sp == list[r.i]
                   el == t.now - sp.startTime
               IN  /\ speakerQueue' = q
                   /\ IF currentSpace = None
                      THEN \* removeSpeaker returns at once; splice; filler
                           /\ activeSpeakers' = Splice(list, r.i)
                           /\ tick' = [t EXCEPT !.pc = "leftFiller", !.i = r.i]
                           /\ last' = evs \o <<Ev("tick.evict", sp.userId, el, 0),
                                                Ev("tick.splice", sp.userId, el, 1)>>
                      ELSE /\ activeSpeakers' = list
                           /\ tick' = [t EXCEPT !.pc = "remove", !.i = r.i]
                           /\ last' = Append(evs, Ev("tick.evict", sp.userId, el, 1))
          [] OTHER ->
               DrainStep(t, list, q, Append(evs, Ev("tick.scanned", t.now, 0, 0)))

\* the routine awaiting manageCurrentSpace goes on when the tick ends:
\* manageCurrentSpace catches every error of its steps and returns
LoopAfterTick ==
    IF loop.pc = "manage" /\ tick'.pc = "idle"
    THEN LoopRearm(loop, "managed")
    ELSE loop

\* the routine's HOSTING branch: manageCurrentSpace() up to
\* `await this.scraper.getAudioSpaceById(this.spaceId)`
TickStart ==
    /\ tick.pc = "idle"
    /\ spaceStatus = HOSTING
    /\ IF spaceId = None \/ currentSpace = None
       THEN /\ last' = <<Ev("tick.skip", 0, 0, 0)>>
            /\ UNCHANGED tick
       ELSE /\ tick' = [TickIdle EXCEPT !.pc = "query"]
            /\ last' = <<Ev("tick.start", 0, 0, 0)>>
    /\ UNCHANGED <<fields, env, handlers, stopT, startT, joinT, waits>>
    /\ UNCHANGED loop

\* getAudioSpaceById settled with the room's participants
TickQueried ==
    /\ tick.pc = "query"
    /\ \E sp \in Reports, ls \in ListenerCounts :
        ScanStep([tick EXCEPT !.speakers = sp, !.listeners = ls, !.now = now],
                 activeSpeakers, speakerQueue, Len(activeSpeakers),
                 <<Ev("tick.begin", 0, 0, 0)>>)
    /\ UNCHANGED tickFrame
    /\ loop' = LoopAfterTick

\* removeSpeaker of step 1 settled (its error is caught): splice(i, 1)
TickRemoved ==
    /\ tick.pc = "remove"
    /\ \E ok \in BOOLEAN :
        /\ activeSpeakers' = Splice(activeSpeakers, tick.i)
        /\ tick' = [tick EXCEPT !.pc = "leftFiller"]
        /\ last' = (IF ok THEN <<>> ELSE <<Ev("remove.failed", 0, 0, 1)>>)
                   \o (IF tick.i \in 1..Len(activeSpeakers)
                       THEN <<Ev("tick.splice", activeSpeakers[tick.i].userId,
                                 tick.now - activeSpeakers[tick.i].startTime, 1)>>
                       ELSE <<Ev("tick.splice", 0, 0, 0)>>)
    /\ UNCHANGED speakerQueue
    /\ UNCHANGED tickFrame
    /\ loop' = LoopAfterTick

\* the SPEAKER_LEFT filler settled: on with the loop
TickLeftFilled ==
    /\ tick.pc = "leftFiller"
    /\ \E ok \in FillerOutcomes :
        IF ok
        THEN ScanStep(tick, activeSpeakers, speakerQueue, tick.i - 1, <<>>)
        ELSE /\ tick' = TickIdle
             /\ last' = <<FillerFailed(3), Ev("tick.throw", 0, 1, 0)>>
             /\ UNCHANGED <<activeSpeakers, speakerQueue>>
    /\ UNCHANGED tickFrame
    /\ loop' = LoopAfterTick

\* the PRE_ACCEPT filler of the queue drain settled: acceptSpeaker(nextReq)
TickPreAccepted ==
    /\ tick.pc = "preAccept"
    /\ \E ok \in FillerOutcomes :
        IF ~ok
        THEN /\ tick' = TickIdle
             /\ last' = <<FillerFailed(4), Ev("tick.throw", 0, 2, 0)>>
             /\ UNCHANGED <<activeSpeakers, speakerQueue>>
        ELSE IF currentSpace = None
        THEN DrainStep(tick, activeSpeakers, speakerQueue,
                       <<Ev("request.dropped", 0, 0, 1)>>)
        ELSE /\ tick' = [tick EXCEPT !.pc = "approve"]
             /\ last' = <<Ev("request.approving", 0, 0, 1)>>
             /\ UNCHANGED <<activeSpeakers, speakerQueue>>
    /\ UNCHANGED tickFrame
    /\ loop' = LoopAfterTick

\* an acceptSpeaker without its try/catch: the error of approveSpeaker
\* reaches the catch block of manageCurrentSpace
TickApproveThrows ==
    /\ tick' = TickIdle
    /\ last' = <<Ev("approve.failed", tick.req.sessionUUID, 0, 1),
                 Ev("tick.throw", 0, 4, 0)>>
    /\ UNCHANGED <<activeSpeakers, speakerQueue>>

\* approveSpeaker of the queue drain failed: acceptSpeaker logs the error
\* and returns, the loop of acceptSpeakersFromQueueIfNeeded goes on
TickApproveFailed ==
    DrainStep(tick, activeSpeakers, speakerQueue,
              <<Ev("approve.failed", tick.req.sessionUUID, 0, 1)>>)

\* approveSpeaker of the queue drain settled: push or log, then loop
TickApproved ==
    /\ tick.pc = "approve"
    /\ \E ok \in BOOLEAN :
        IF ok
        THEN DrainStep(tick, Append(activeSpeakers, ActiveEntry(tick.req)),
                       speakerQueue,
                       <<Ev("accepted", tick.req.sessionUUID, 0, 1)>>)
        ELSE TickApproveFailed
    /\ UNCHANGED tickFrame
    /\ loop' = LoopAfterTick

\* removeSpeaker of kickExtraSpeakers settled: reconcile activeSpeakers,
\* then the next extra speaker, then step 4
TickKicked ==
    /\ tick.pc = "kick"
    /\ \E ok \in BOOLEAN :
        LET extras == Extras(tick.speakers)
            list == DropUser(activeSpeakers, extras[tick.k])
            ev == IF ok THEN <<Ev("tick.kicked", 0, 0, 0)>>
                  ELSE <<Ev("remove.failed", 0, 0, 2), Ev("tick.kicked", 0, 0, 0)>>
        IN  IF tick.k + 1 > Len(extras)
            THEN CloseStep(tick, list, speakerQueue, ev)
            ELSE IF currentSpace = None
            THEN CloseStep(tick, KickRest(list, extras, tick.k + 1),
                           speakerQueue, ev)
            ELSE /\ activeSpeakers' = list
                 /\ tick' = [tick EXCEPT !.k = tick.k + 1]
                 /\ last' = Append(ev, Ev("tick.kick", 0, 0, 0))
                 /\ UNCHANGED speakerQueue
    /\ UNCHANGED tickFrame
    /\ loop' = LoopAfterTick

\* the CLOSING filler settled: stopSpace() up to `await currentSpace.stop()`
TickClosed ==
    /\ tick.pc = "closing"
    /\ \E ok \in FillerOutcomes :
        IF ~ok
        THEN /\ tick' = TickIdle
             /\ last' = <<FillerFailed(5), Ev("tick.throw", 0, 3, 0)>>
             /\ UNCHANGED rooms
        ELSE IF StopGuard
        THEN /\ tick' = TickIdle
             /\ last' = <<Ev("stop.noop", 0, 0, 1)>>
             /\ UNCHANGED rooms
        ELSE /\ rooms' = CloseRoom(currentSpace)
             /\ tick' = [tick EXCEPT !.pc = "stop"]
             /\ last' = <<Ev("stop.call", 0, 0, 1)>>
    /\ UNCHANGED <<fields, now, wired, partJoined, nextUUID,
                   handlers, stopT, startT, joinT, waits>>
    /\ loop' = LoopAfterTick

\* the room's stop() called by the tick settled
TickStopped ==
    /\ tick.pc = "stop"
    /\ \E ok \in BOOLEAN :
           /\ StopSettled(ok)
           /\ last' = <<Ev("stop.done", Bit(ok), Bit(StopThrows(ok)), 1),
                        Ev("stop.had", Len(activeSpeakers), Len(speakerQueue), 1)>>
    /\ tick' = TickIdle
    /\ UNCHANGED <<spaceParticipant, env, handlers, stopT, startT, joinT, waits>>
    /\ loop' = LoopAfterTick

(* ----------------------- startPeriodicSpaceCheck ----------------------- *)

\* shouldLaunchSpace at the instant tnow, ended being this.lastSpaceEndedAt
ShouldLaunch(tnow, ended) ==
    ~(ended # None /\ tnow - ended < minIntervalBetweenSpacesMinutes * msPerMinute)

\* now - lastSpaceEndedAt (0 when lastSpaceEndedAt is undefined)
SinceLastSpace == IF lastSpaceEndedAt = None THEN 0 ELSE now - lastSpaceEndedAt

\* a routine that arms the next timer before it awaits manageCurrentSpace
LoopEnterManageArmed(l) == [l EXCEPT !.pc = "manage", !.timers = @ + 1]

\* the routine awaits manageCurrentSpace: no timer is armed until it returns
LoopEnterManage(l) == [l EXCEPT !.pc = "manage"]

\* an execution of the routine begins, l the loop with this execution
\* counted: the branch on spaceStatus, up to the first await
RoutineBegin(l) ==
    IF loop.pc # "idle"
    THEN \* another execution is suspended at an await: the two overlap
         /\ loop' = l
         /\ last' = <<Ev("loop.overlap", 0, 0, 0)>>
         /\ UNCHANGED tick
    ELSE IF spaceStatus = IDLE
    THEN /\ UNCHANGED tick
         /\ IF l.enableSpaceHosting
            THEN /\ loop' = [l EXCEPT !.pc = "shouldLaunch",
                                      !.launch = ShouldLaunch(now, lastSpaceEndedAt)]
                 /\ last' = <<Ev("loop.check",
                                 Bit(ShouldLaunch(now, lastSpaceEndedAt)),
                                 SinceLastSpace, Bit(lastSpaceEndedAt # None))>>
            ELSE /\ loop' = LoopRearm(l, "idle")
                 /\ last' = <<Ev("loop.idle", 0, 0, 0)>>
    ELSE IF spaceStatus = HOSTING
    THEN IF spaceId = None \/ currentSpace = None
         THEN /\ loop' = LoopRearm(l, "managed")
              /\ last' = <<Ev("tick.skip", 0, 0, 0)>>
              /\ UNCHANGED tick
         ELSE /\ loop' = LoopEnterManage(l)
              /\ tick' = [TickIdle EXCEPT !.pc = "query"]
              /\ last' = <<Ev("tick.start", 0, 0, 0)>>
    ELSE /\ loop' = LoopRearm(l, "participating")
         /\ last' = <<Ev("loop.participating", 0, 0, 0)>>
         /\ UNCHANGED tick

\* startPeriodicSpaceCheck(): the first execution of the routine, the
\* character's enableSpaceHosting setting being either value
StartPeriodic ==
    /\ ~loop.started
    /\ \E h \in BOOLEAN :
           RoutineBegin([loop EXCEPT !.started = TRUE, !.enableSpaceHosting = h,
                                     !.running = @ + 1])
    /\ UNCHANGED <<fields, env, handlers, stopT, startT, joinT, waits>>

\* a timer armed by the routine fires: the next execution of the routine
LoopFire ==
    /\ loop.timers > 0
    /\ RoutineBegin([loop EXCEPT !.timers = @ - 1, !.running = @ + 1])
    /\ UNCHANGED <<fields, env, handlers, stopT, startT, joinT, waits>>

\* `await this.shouldLaunchSpace()` settled: generateSpaceConfig() is
\* called, or the next tick is armed
LoopChecked ==
    /\ loop.pc = "shouldLaunch"
    /\ IF loop.launch
       THEN /\ loop' = [loop EXCEPT !.pc = "config"]
            /\ last' = <<Ev("loop.config", 0, 0, 0)>>
       ELSE /\ loop' = LoopRearm(loop, "idle")
            /\ last' = <<Ev("loop.idle", 0, 0, 1)>>
    /\ UNCHANGED <<fields, env, tasks>>

\* `await this.generateSpaceConfig()` settled: startSpace(config) is called,
\* or the error of generateTopicsIfEmpty reaches the catch of the routine
LoopConfigured ==
    /\ loop.pc = "config"
    /\ \E ok \in BOOLEAN :
        IF ok
        THEN /\ StartEnter(MaxLaunches)
             /\ loop' = [loop EXCEPT !.pc = "start"]
             /\ last' = <<Ev("loop.launch", 0, SinceLastSpace,
                             Bit(lastSpaceEndedAt # None))>>
        ELSE /\ loop' = LoopCatch(loop)
             /\ last' = <<Ev("loop.throw", 0, 0, 0)>>
             /\ UNCHANGED <<fields, env, tasks>>

\* Date.now() reaches the instants around the end of the cooldown that
\* follows the last stop
CooldownTime ==
    /\ lastSpaceEndedAt # None
    /\ \E d \in {-1, 0, 1} :
           /\ now' = lastSpaceEndedAt
                         + minIntervalBetweenSpacesMinutes * msPerMinute + d
           /\ now' > now
    /\ last' = <<Ev("time", 0, 0, 1)>>
    /\ UNCHANGED <<fields, rooms, wired, partJoined, nextUUID, tasks, loop>>

\* Date.now() passes the typical duration of the session that is running
SessionTime ==
    /\ startedAt # None
    /\ now' = startedAt + typicalDurationMinutes * msPerMinute + 1
    /\ now' > now
    /\ last' = <<Ev("time", 0, 0, 2)>>
    /\ UNCHANGED <<fields, rooms, wired, partJoined, nextUUID, tasks, loop>>

\* stopPeriodicCheck on the loop l: clearTimeout of the handle in
\* this.checkInterval, which cancels the timer when it is still pending and
\* does nothing when it has fired, then the handle is forgotten
StopPeriodicCheck(l) ==
    IF l.checkInterval
    THEN [l EXCEPT !.timers = 0, !.checkInterval = FALSE, !.stopped = TRUE]
    ELSE [l EXCEPT !.stopped = TRUE]

\* stopPeriodicCheck() is called on the started loop
StopPeriodic ==
    /\ loop.started
    /\ ~loop.stopped
    /\ loop' = StopPeriodicCheck(loop)
    /\ last' = <<Ev("loop.stop", Bit(loop.checkInterval), loop.timers,
                    loop.running)>>
    /\ UNCHANGED <<fields, env, tasks>>

LoopNext == StartPeriodic \/ LoopFire \/ LoopChecked \/ LoopConfigured

(* ------------------------ joinSpace / waitForApproval ------------------ *)

\* a guard of joinSpace that rejects a hosting manager only
JoinGuardHostingOnly == spaceStatus = HOSTING

\* the first line of joinSpace: a join is rejected unless IDLE
JoinGuard == spaceStatus # IDLE

\* a waitForApproval promise just created: the handler registered, the
\* timeout armed
NewWait ==
    [listening |-> TRUE, resolved |-> FALSE, timer |-> TRUE, becoming |-> FALSE,
     outcome |-> "pending", settles |-> 0, offs |-> 0]

\* joinSpace returns: ret 1 for spaceId, 0 for null; w is the waitForApproval
\* promise it awaited (0: none), cancels its calls of cancelSpeakerRequest
JoinReturn(ret, w, cancels) ==
    /\ joinT' = TaskIdle
    /\ last' = <<Ev("join.return", ret, w, cancels)>>

\* joinSpace without the inner catch: a failed negotiation goes to the outer
\* catch, which returns null and cancels nothing
JoinAfterWaitNoCancel(outcome, evs) ==
    /\ joinT' = TaskIdle
    /\ last' = Append(evs, Ev("join.return", Bit(outcome = "resolved"),
                              joinT.w, joinT.cancels))

\* joinSpace once the waitForApproval promise has settled with outcome: the
\* plugin and `return spaceId`, or the catch with
\* `await this.spaceParticipant.cancelSpeakerRequest()`
JoinAfterWait(outcome, evs) ==
    IF outcome = "resolved"
    THEN /\ joinT' = TaskIdle
         /\ last' = Append(evs, Ev("join.return", 1, joinT.w, joinT.cancels))
    ELSE /\ joinT' = [joinT EXCEPT !.pc = "cancel", !.cancels = @ + 1]
         /\ last' = Append(evs, Ev("join.cancel", 0, joinT.w, joinT.cancels + 1))

\* the promise of wait w settles with outcome (a second resolve or reject of
\* a settled promise changes nothing); joinSpace awaiting it goes on
Settle(w, wait, outcome, evs) ==
    /\ waits' = [waits EXCEPT ![w] =
                    [wait EXCEPT !.settles = @ + 1,
                                 !.outcome = IF @ = "pending" THEN outcome ELSE @]]
    /\ IF joinT.pc = "waitForApproval" /\ joinT.w = w /\ waits[w].outcome = "pending"
       THEN JoinAfterWait(outcome, evs)
       ELSE /\ last' = evs
            /\ UNCHANGED joinT

\* joinSpace(spaceId) up to `await this.spaceParticipant.joinAsListener(..)`
JoinCall ==
    /\ joinT.pc = "idle"
    /\ IF JoinGuard
       THEN /\ last' = <<Ev("join.rejected", 0, 0, 0)>>
            /\ UNCHANGED <<fields, env, tasks>>
       ELSE /\ Len(waits) < MaxJoins
            /\ spaceParticipant' = TRUE
            /\ joinT' = [pc |-> "joinAsListener", w |-> 0, cancels |-> 0]
            /\ last' = <<Ev("join.call", 0, 0, 0)>>
            /\ UNCHANGED <<spaceStatus, currentSpace, spaceId, startedAt,
                           lastSpaceEndedAt, activeSpeakers, speakerQueue, env,
                           handlers, tick, stopT, startT, waits>>
    /\ UNCHANGED loop

\* joinAsListener settled: PARTICIPATING, then `await requestSpeaker()`
JoinListened ==
    /\ joinT.pc = "joinAsListener"
    /\ \E ok \in BOOLEAN :
        IF ok
        THEN /\ partJoined' = TRUE
             /\ spaceStatus' = PARTICIPATING
             /\ joinT' = [joinT EXCEPT !.pc = "requestSpeaker"]
             /\ last' = <<Ev("join.listening", 0, 0, 0)>>
        ELSE /\ JoinReturn(0, 0, 0)
             /\ UNCHANGED <<partJoined, spaceStatus>>
    /\ UNCHANGED <<currentSpace, spaceId, startedAt, lastSpaceEndedAt,
                   activeSpeakers, speakerQueue, spaceParticipant, now,
                   rooms, wired, nextUUID, handlers, tick, stopT, startT, waits>>
    /\ UNCHANGED loop

\* requestSpeaker settled: waitForApproval(participant, sessionUUID, 15000)
\* registers its handler and arms its timeout
JoinRequested ==
    /\ joinT.pc = "requestSpeaker"
    /\ \E ok \in BOOLEAN :
        IF ok
        THEN /\ waits' = Append(waits, NewWait)
             /\ joinT' = [joinT EXCEPT !.pc = "waitForApproval", !.w = Len(waits) + 1]
             /\ last' = <<Ev("join.waiting", 0, 0, 0)>>
        ELSE /\ JoinReturn(0, 0, 0)
             /\ UNCHANGED waits
    /\ UNCHANGED <<fields, env, handlers, tick, stopT, startT>>
    /\ UNCHANGED loop

\* a handler that forgets `resolved = true`
OnMatchNoFlag(wait) ==
    [wait EXCEPT !.listening = FALSE, !.offs = @ + 1, !.becoming = TRUE]

\* the handler of wait w on an event whose sessionUUID is its own: resolved,
\* off, then `await participant.becomeSpeaker()`
OnMatch(wait) ==
    [wait EXCEPT !.resolved = TRUE, !.listening = FALSE, !.offs = @ + 1,
                 !.becoming = TRUE]

\* the participant emits "newSpeakerAccepted" with sessionUUID u: every
\* registered handler runs
EmitAccepted ==
    /\ \E w \in DOMAIN waits : waits[w].listening
    /\ \E u \in 1..(Len(waits) + 1) :
        /\ waits' = [w \in DOMAIN waits |->
                        IF waits[w].listening /\ w = u
                        THEN OnMatch(waits[w]) ELSE waits[w]]
        /\ last' = <<Ev("emit", 0, Bit(u \in DOMAIN waits /\ waits[u].listening), 0)>>
    /\ UNCHANGED <<fields, env, handlers, tick, stopT, startT, joinT>>
    /\ UNCHANGED loop

\* becomeSpeaker of wait w settled: resolve(), or reject(err)
BecomeSettled ==
    /\ \E w \in DOMAIN waits, ok \in BOOLEAN :
        /\ waits[w].becoming
        /\ Settle(w, [waits[w] EXCEPT !.becoming = FALSE],
                  IF ok THEN "resolved" ELSE "rejected",
                  <<Ev("become", 0, Bit(ok), 0)>>)
    /\ UNCHANGED <<fields, env, handlers, tick, stopT, startT>>
    /\ UNCHANGED loop

\* the timeout callback of wait w: nothing if resolved, else off and reject
OnTimeout(w, wait, evs) ==
    IF wait.resolved
    THEN /\ waits' = [waits EXCEPT ![w] = wait]
         /\ last' = evs
         /\ UNCHANGED joinT
    ELSE Settle(w, [wait EXCEPT !.listening = FALSE, !.offs = @ + 1],
                "rejected", evs)

\* the timeout of wait w fires (it is never cleared)
TimeoutFired ==
    /\ \E w \in DOMAIN waits :
        /\ waits[w].timer
        /\ OnTimeout(w, [waits[w] EXCEPT !.timer = FALSE],
                     <<Ev("timeout", 0, Bit(waits[w].resolved), 0)>>)
    /\ UNCHANGED <<fields, env, handlers, tick, stopT, startT>>
    /\ UNCHANGED loop

\* a joinSpace whose failed cancellation reaches the outer catch: null
JoinAfterCancelRethrows(ok) == Bit(ok)

\* what joinSpace returns once cancelSpeakerRequest has settled, ok telling
\* whether it resolved: its error is caught and logged, then `return spaceId`
JoinAfterCancel(ok) == 1

\* cancelSpeakerRequest settled
JoinCancelled ==
    /\ joinT.pc = "cancel"
    /\ \E ok \in BOOLEAN :
        /\ joinT' = TaskIdle
        /\ last' = <<Ev("cancelled", Bit(ok), 0, 0),
                     Ev("join.return", JoinAfterCancel(ok), joinT.w, joinT.cancels)>>
    /\ UNCHANGED <<fields, env, handlers, tick, stopT, startT, waits>>
    /\ UNCHANGED loop

JoinNext ==
    \/ JoinCall \/ JoinListened \/ JoinRequested
    \/ EmitAccepted \/ BecomeSettled \/ TimeoutFired \/ JoinCancelled

\* the state in which a first startSpace has returned, nothing else having run
Hosting ==
    /\ spaceStatus = HOSTING
    /\ currentSpace = 1
    /\ spaceId = 1
    /\ startedAt = Epoch
    /\ lastSpaceEndedAt = None
    /\ activeSpeakers = <<>>
    /\ speakerQueue = <<>>
    /\ spaceParticipant = FALSE
    /\ now = Epoch
    /\ rooms = <<"open">>
    /\ wired = {1}
    /\ partJoined = FALSE
    /\ nextUUID = 1
    /\ handlers = {}
    /\ tick = TickIdle
    /\ stopT = TaskIdle
    /\ startT = TaskIdle
    /\ joinT = TaskIdle
    /\ waits = <<>>
    /\ loop = LoopIdle
    /\ last = <<Ev("start.done", 0, 0, 0)>>

StartNext == StartCall \/ StartInitialized \/ StartTweeted \/ StartWelcomed

StopNext == StopCall \/ StopSettle

RequestNext ==
    SpeakerRequest \/ HandlerQueried \/ HandlerFilled \/ HandlerApproved

TickNext ==
    \/ TickStart \/ TickQueried \/ TickRemoved \/ TickLeftFilled
    \/ TickPreAccepted \/ TickApproved \/ TickKicked
    \/ TickClosed \/ TickStopped

\* the hosting side: sessions, speaker requests and management ticks
HostNext == AdvanceTime \/ StartNext \/ StopNext \/ RequestNext \/ TickNext

HostSpec == Init /\ [][HostNext]_vars

\* sessions opened, joined and stopped; no step of these reads the clock
\* but to record it
LifecycleNext == StartNext \/ StopNext \/ JoinNext

LifecycleSpec == Init /\ [][LifecycleNext]_vars

\* one hosted session, from the return of startSpace on, with speaker
\* requests and callers of stopSpace
AdmissionNext == AdvanceTime \/ StopNext \/ RequestNext

AdmissionSpec == Hosting /\ [][AdmissionNext]_vars

\* sessions with management ticks and no speaker request
ManageNext ==
    \/ AdvanceTime \/ StartNext \/ StopNext
    \/ TickStart \/ TickQueried \/ TickKicked \/ TickClosed \/ TickStopped

ManageSpec == Init /\ [][ManageNext]_vars

\* the control loop as the driver of the sessions: it launches and manages
\* them, a handler or another caller stops them
ControlNext ==
    \/ SessionTime \/ CooldownTime \/ LoopNext
    \/ StartInitialized \/ StartTweeted \/ StartWelcomed
    \/ StopNext
    \/ TickQueried \/ TickKicked \/ TickClosed \/ TickStopped

ControlSpec == Init /\ [][ControlNext]_vars

\* the control loop as the only caller: it launches, manages and closes
\* the sessions
LoopOnlyNext ==
    \/ SessionTime \/ CooldownTime \/ LoopNext
    \/ StartInitialized \/ StartTweeted \/ StartWelcomed
    \/ TickQueried \/ TickKicked \/ TickClosed \/ TickStopped

LoopSpec == Init /\ [][LoopOnlyNext]_vars

\* a hosted session in which speaker requests have been served, nothing
\* being in flight: a requests admitted at Epoch (a <= maxSpeakers), the q
\* next ones queued, each by any user
Served ==
    /\ spaceStatus = HOSTING
    /\ currentSpace = 1
    /\ spaceId = 1
    /\ startedAt = Epoch
    /\ lastSpaceEndedAt = None
    /\ \E a \in 0..maxSpeakers, q \in 0..MaxReq :
        /\ a + q <= MaxReq
        /\ \E us \in [1..(a + q) -> Users] :
            /\ activeSpeakers =
                   [n \in 1..a |-> [userId |-> us[n], sessionUUID |-> n,
                                    startTime |-> Epoch]]
            /\ speakerQueue =
                   [n \in 1..q |-> [userId |-> us[a + n], sessionUUID |-> a + n]]
            /\ nextUUID = a + q + 1
    /\ spaceParticipant = FALSE
    /\ now = Epoch
    /\ rooms = <<"open">>
    /\ wired = {1}
    /\ partJoined = FALSE
    /\ handlers = {}
    /\ tick = TickIdle
    /\ stopT = TaskIdle
    /\ startT = TaskIdle
    /\ joinT = TaskIdle
    /\ waits = <<>>
    /\ loop = LoopIdle
    /\ last = <<Ev("served", 0, 0, 0)>>

\* the management ticks of that session
ServedNext == AdvanceTime \/ TickNext

TickSpec == Served /\ [][ServedNext]_vars

\* sessions with their fillers: launch, management ticks, the idleTimeout
\* and SIGINT handlers
FillerNext ==
    \/ SessionTime \/ StartNext \/ EndingNext
    \/ TickStart \/ TickQueried \/ TickKicked \/ TickClosed \/ TickStopped

FillerSpec == Init /\ [][FillerNext]_vars

\* the control loop as the only caller, and a call of stopPeriodicCheck
PeriodicNext == LoopOnlyNext \/ StopPeriodic

PeriodicSpec == Init /\ [][PeriodicNext]_vars

Next == HostNext \/ JoinNext \/ EndingNext \/ LoopNext \/ StopPeriodic \/ SessionTime \/ CooldownTime

Spec == Init /\ [][Next]_vars

(* ------------------------------- claims -------------------------------- *)

Range(f) == { f[x] : x \in DOMAIN f }

\* no call that writes activeSpeakers is in flight
Quiet ==
    /\ handlers = {}
    /\ tick.pc = "idle"
    /\ stopT.pc = "idle"
    /\ startT.pc = "idle"

\* C1: whenever the speaker-request handlers, the management tick and the
\* stops have all run to completion, activeSpeakers holds at most maxSpeakers
\* entries, whatever speaker counts the room has reported and however the
\* handlers interleaved at their awaits.
C1_ActiveWithinMax == Quiet => Len(activeSpeakers) <= maxSpeakers

\* C2: admission is strict FIFO: at the step that pushes a request onto
\* activeSpeakers (from the queue or straight from handleSpeakerRequest), no
\* request that arrived earlier (a smaller sessionUUID) sits in speakerQueue.
C2_StrictFifo ==
    [][ \A b \in Range(activeSpeakers') :
            (\A o \in Range(activeSpeakers) : o.sessionUUID # b.sessionUUID)
            => \A a \in Range(speakerQueue) : a.sessionUUID > b.sessionUUID ]_vars

\* the room sessions opened and not closed: the Space objects whose
\* initialize succeeded and whose stop has not been called, and the
\* participant session joinAsListener opened
OpenSessions ==
    Cardinality({ h \in DOMAIN rooms : rooms[h] = "open" }) + Bit(partJoined)

\* C8: in every reachable state at most one room session is opened and not
\* closed, for any sequence of startSpace, joinSpace and stopSpace.
C8_OneSession == OpenSessions <= 1

\* a call of stopSpace has just returned
StopReturned == Did("stop.noop") \/ Did("stop.done")

\* C3: stopSpace leaves status IDLE at each of its returns (the second of
\* two calls in a row being one of them).
C3_IdleAfterStop == StopReturned => spaceStatus = IDLE

\* C4: when the room's stop() has failed, stopSpace returns without throwing
\* with status IDLE, spaceId, currentSpace and startedAt cleared,
\* lastSpaceEndedAt the current time and both lists empty.
C4_StopFailureResets ==
    \A n \in DOMAIN last :
        (last[n].ev = "stop.done" /\ last[n].a = 0)
        => /\ last[n].b = 0
           /\ spaceStatus = IDLE
           /\ spaceId = None
           /\ currentSpace = None
           /\ startedAt = None
           /\ lastSpaceEndedAt = now
           /\ activeSpeakers = <<>>
           /\ speakerQueue = <<>>

\* a stopSpace whose room stop() failed has returned, later than the session
\* started, and it held an active speaker and a queued request
C4_Witness ==
    /\ \E n \in DOMAIN last : last[n].ev = "stop.done" /\ last[n].a = 0
    /\ \E n \in DOMAIN last :
           last[n].ev = "stop.had" /\ last[n].a > 0 /\ last[n].b > 0
    /\ now > Epoch

\* C5: every waitForApproval promise has been settled at most once and its
\* listener unregistered at most once; once the matching event or the
\* timeout has come the listener is unregistered exactly once and no longer
\* registered, and a settled promise has its listener unregistered.
C5_SettledOnce ==
    \A w \in DOMAIN waits :
        /\ waits[w].settles <= 1
        /\ waits[w].offs <= 1
        /\ waits[w].listening <=> waits[w].offs = 0
        /\ (waits[w].resolved \/ ~waits[w].timer) => waits[w].offs = 1
        /\ waits[w].settles = 1 <=> waits[w].outcome # "pending"
        /\ waits[w].settles = 1 => waits[w].offs = 1

\* the matching event came, becomeSpeaker settled the promise, and the
\* timeout fired afterwards
C5_Witness ==
    \E w \in DOMAIN waits :
        /\ waits[w].resolved
        /\ ~waits[w].timer
        /\ waits[w].settles = 1
        /\ Did("timeout")

\* C6: a joinSpace whose waitForApproval promise rejected (timeout or
\* becomeSpeaker failure) has called cancelSpeakerRequest exactly once when
\* it returns, and it returns the spaceId whether the cancellation resolved
\* or failed; one whose promise resolved has called it never.
C6_CancelOnce ==
    /\ \A n \in DOMAIN last :
        (last[n].ev = "join.return" /\ last[n].b # 0)
        => /\ waits[last[n].b].outcome = "rejected"
              => (last[n].c = 1 /\ last[n].a = 1 /\ Did("cancelled"))
           /\ waits[last[n].b].outcome = "resolved" => last[n].c = 0
    /\ joinT.pc = "cancel"
       => (joinT.cancels = 1 /\ waits[joinT.w].outcome = "rejected")
    /\ joinT.pc = "waitForApproval" => waits[joinT.w].outcome = "pending"

\* joinSpace has returned after a rejected negotiation and a failed
\* cancelSpeakerRequest
C6_Witness ==
    /\ \E n \in DOMAIN last : last[n].ev = "cancelled" /\ last[n].a = 0
    /\ \E n \in DOMAIN last :
           last[n].ev = "join.return" /\ last[n].a = 1 /\ last[n].c = 1

\* the step is a call of joinSpace
JoinCalled ==
    \E n \in DOMAIN last' : last'[n].ev \in {"join.rejected", "join.call"}

\* C7: a call of joinSpace while status is HOSTING or PARTICIPATING returns
\* null at once: no call on the participant is started and no field changes.
C7_JoinRejected ==
    [][ (JoinCalled /\ spaceStatus \in {HOSTING, PARTICIPATING})
        => /\ last' = <<Ev("join.rejected", 0, 0, 0)>>
           /\ UNCHANGED <<fields, env, tasks>> ]_vars

\* a joinSpace was rejected while another joinSpace had made the manager a
\* participant
C7_Witness ==
    /\ Did("join.rejected")
    /\ spaceStatus = PARTICIPATING
    /\ partJoined

\* the decision of step 4 of a tick, from elapsedMs, the room's speaker
\* count and its listener count as the tick computed them
C9_Decision ==
    \A n \in DOMAIN last :
        last[n].ev \in {"tick.closing", "tick.stay"}
        => /\ last[n].a > typicalDurationMinutes * msPerMinute
              => last[n].ev = "tick.closing"
           /\ (last[n].b = 0 /\ last[n].c = 0 /\ last[n].a > 5 * msPerMinute)
              => last[n].ev = "tick.closing"
           /\ (last[n].c = 1 /\ last[n].a = 4 * msPerMinute
                  /\ 4 < typicalDurationMinutes)
              => last[n].ev = "tick.stay"

\* C9: a management tick decides to close when the elapsed session time
\* exceeds typicalDurationMinutes, and when the room has no speaker and no
\* listener and more than 5 minutes have elapsed; with one listener and 4
\* minutes elapsed it does not; a tick that decided to close goes on to
\* call stopSpace, and one that did not ends there.
C9_AutoClose ==
    [][ /\ C9_Decision'
        /\ Did("tick.closing")' => tick'.pc = "closing"
        /\ Did("tick.stay")' => tick'.pc = "idle"
        /\ (tick.pc = "closing" /\ tick' # tick)
           => (Did("stop.noop")' \/ Did("stop.call")') ]_vars

\* a tick more than 5 minutes and at most typicalDurationMinutes into the
\* session, of a room without speaker or listener, has decided to close
C9_Witness ==
    \E n \in DOMAIN last :
        /\ last[n].ev = "tick.closing"
        /\ last[n].b = 0
        /\ last[n].c = 0
        /\ last[n].a > 5 * msPerMinute
        /\ last[n].a <= typicalDurationMinutes * msPerMinute

\* C10: the duration-eviction step of a tick removes from activeSpeakers
\* only entries with now - startTime > speakerMaxDurationMs, requests the
\* removal of each from the room, and leaves none of them in the list when
\* its loop ends.
C10_DurationEviction ==
    \A n \in DOMAIN last :
        /\ (last[n].ev = "tick.splice" /\ last[n].c = 1)
           => last[n].b > speakerMaxDurationMs
        /\ last[n].ev = "tick.evict" => last[n].b > speakerMaxDurationMs
        /\ last[n].ev = "tick.scanned"
           => \A s \in Range(activeSpeakers) :
                  last[n].a - s.startTime <= speakerMaxDurationMs

\* a call of startSpace ends in this step
StartEnds == startT.pc # "idle" /\ startT'.pc = "idle"

\* C12: status becomes HOSTING only in the step of startSpace that follows a
\* successful initialize of the room handle, and a startSpace that fails at
\* any of its awaits (initialize, sendTweet, the handler registration) ends
\* with status IDLE and rethrows the error to its caller.
C12_HostingAfterInitialize ==
    [][ /\ (spaceStatus' = HOSTING /\ spaceStatus # HOSTING)
           => /\ startT.pc = "initialize"
              /\ Did("start.hosting")'
        /\ StartEnds
           => \/ Did("start.done")' /\ ~Did("start.throw")'
              \/ Did("start.throw")' /\ spaceStatus' = IDLE ]_vars

\* a startSpace that had set HOSTING failed at sendTweet and has rethrown
C12_Witness ==
    /\ \E n \in DOMAIN last : last[n].ev = "start.throw" /\ last[n].b = 2
    /\ spaceStatus = IDLE
    /\ spaceId # None

\* no operation of the manager is in progress
BetweenOperations ==
    /\ Quiet
    /\ joinT.pc = "idle"
    /\ loop.pc = "idle"

\* C13: between operations, spaceId and startedAt are both defined when
\* status is HOSTING or PARTICIPATING and both undefined when status is
\* IDLE, a failed startSpace and a joinSpace included.
C13_DefinedIffActive ==
    BetweenOperations
    => /\ spaceStatus # IDLE => (spaceId # None /\ startedAt # None)
       /\ spaceStatus = IDLE => (spaceId = None /\ startedAt = None)

\* the user ids of the entries of a list
UserIds(list) == { list[n].userId : n \in DOMAIN list }

\* C14: no userId is at the same time in speakerQueue and in activeSpeakers,
\* whatever speaker requests (repeated requests of one user included) and
\* management ticks have run.
C14_QueueDisjointFromActive ==
    UserIds(speakerQueue) \cap UserIds(activeSpeakers) = {}

\* joinSpace has just returned after its waitForApproval promise rejected
\* (approval timeout or becomeSpeaker failure); ret is what it returned
NegotiationFailedReturn(ret) ==
    \E n \in DOMAIN last :
        /\ last[n].ev = "join.return"
        /\ last[n].b # 0
        /\ waits[last[n].b].outcome = "rejected"
        /\ last[n].a = ret

\* C15 as stated: a joinSpace whose promotion negotiation failed does not
\* return the space id.
C15_NegotiationErrorSurfaced == ~NegotiationFailedReturn(1)

\* C15: a promotion-negotiation error is caught inside joinSpace: the call
\* returns the space id all the same, and joinSpace returns null only when
\* joinAsListener or requestSpeaker failed, before any negotiation.
C15_NegotiationErrorAbsorbed ==
    /\ ~NegotiationFailedReturn(0)
    /\ \A n \in DOMAIN last :
           (last[n].ev = "join.return" /\ last[n].a = 0) => last[n].b = 0

\* joinSpace has returned the space id after the approval timeout rejected
\* its negotiation
C15_Witness ==
    /\ NegotiationFailedReturn(1)
    /\ \E w \in DOMAIN waits : ~waits[w].timer /\ ~waits[w].resolved

\* the cooldown in ms
minIntervalMs == minIntervalBetweenSpacesMinutes * msPerMinute

\* C11: shouldLaunchSpace returns false exactly when lastSpaceEndedAt is set
\* and now - lastSpaceEndedAt < minIntervalBetweenSpacesMinutes * 60000 (true
\* at the boundary, beyond it, and when lastSpaceEndedAt is undefined), and
\* the routine calls startSpace only after it returned true: never while
\* less than the cooldown has elapsed since the last stop.
C11_LaunchAfterCooldown ==
    \A n \in DOMAIN last :
        /\ last[n].ev = "loop.check"
           => /\ last[n].a = 0 <=> (last[n].c = 1 /\ last[n].b < minIntervalMs)
              /\ (last[n].c = 1 /\ last[n].b = minIntervalMs) => last[n].a = 1
              /\ last[n].c = 0 => last[n].a = 1
        /\ last[n].ev = "loop.launch"
           => (last[n].c = 0 \/ last[n].b >= minIntervalMs)

\* what a finished execution of the routine did
TickOutcomes == {"idle", "launched", "managed", "threw", "participating"}

\* C16: when an execution of the routine finishes, whether it stayed idle,
\* launched a session, managed a session or threw (the launch failure
\* included), exactly one timer for the next execution is pending; and
\* whenever the started loop has no execution in progress, one timer is
\* pending.
C16_RearmedAfterTick ==
    [][ /\ loop'.running < loop.running
           => (loop'.timers = 1 /\ loop'.outcome \in TickOutcomes)
        /\ (loop'.started /\ loop'.running = 0) => loop'.timers = 1 ]_vars

\* an execution of the routine whose startSpace threw has finished, its
\* timer armed
C16_Witness ==
    /\ Did("start.throw")
    /\ loop.outcome = "threw"
    /\ loop.running = 0
    /\ loop.timers = 1

\* C17: of the loop that startPeriodicSpaceCheck started, at most one
\* execution of the routine is in progress at any time, and while one is in
\* progress (suspended in manageCurrentSpace or in the launch) no timer for
\* a next execution is pending; so manageCurrentSpace never runs twice at once.
C17_NoOverlappingTicks ==
    /\ loop.running <= 1
    /\ loop.running = 1 => loop.timers = 0
    /\ ~Did("loop.overlap")
    /\ tick.pc # "idle" => (loop.running = 1 /\ loop.pc = "manage")

\* the routine is suspended in manageCurrentSpace, which awaits the room's
\* stop() of its auto-close
C17_Witness ==
    /\ loop.pc = "manage"
    /\ tick.pc = "stop"
    /\ loop.running = 1

\* a room call of the management tick has just failed: approveSpeaker in
\* the queue drain, or removeSpeaker in the eviction or the capacity trim
TickCallFailed ==
    \E n \in DOMAIN last :
        \/ last[n].ev = "approve.failed" /\ last[n].c = 1
        \/ last[n].ev = "remove.failed"

\* C18: when approveSpeaker or removeSpeaker fails during a management tick,
\* the error is caught where it arises: the tick is not aborted by it and
\* goes on with its sequence (the rest of the eviction, the queue drain, the
\* capacity trim, then the auto-close check, which ends the tick or starts
\* the closing), and nothing is thrown out of manageCurrentSpace.
C18_TickSurvivesCallFailure ==
    TickCallFailed
    => /\ ~Did("tick.throw")
       /\ \/ tick.pc \in {"leftFiller", "preAccept", "kick", "closing"}
          \/ tick.pc = "idle" /\ Did("tick.stay")

\* a tick whose approveSpeaker failed has run on to its auto-close check
C18_Witness ==
    /\ \E n \in DOMAIN last : last[n].ev = "approve.failed" /\ last[n].c = 1
    /\ Did("tick.stay")
    /\ tick.pc = "idle"

\* the request of sessionUUID u is in the list
Holds(list, u) == \E n \in DOMAIN list : list[n].sessionUUID = u

\* C19: a request taken from speakerQueue by the queue drain is, once its
\* admission has ended, in activeSpeakers, unless the session has ended: no
\* request leaves the queue without becoming an active speaker while the
\* session is running, also when approveSpeaker fails.
C19_QueuedUntilAdmitted ==
    [][ (/\ tick.pc \in {"preAccept", "approve"}
         /\ tick'.pc \notin {"preAccept", "approve"} \/ tick'.req # tick.req)
        => \/ Holds(activeSpeakers', tick.req.sessionUUID)
           \/ Holds(speakerQueue', tick.req.sessionUUID)
           \/ spaceStatus' # HOSTING ]_vars

\* stopSpace has been called in this step
StopCalled == Did("stop.call") \/ Did("stop.noop")

\* C20: a speakFiller call that fails does not fail the operation around
\* it: after a failed WELCOME filler startSpace still returns with status
\* HOSTING, after a failed filler of a management tick the tick is not
\* aborted and its auto-close still calls stopSpace, and after a failed
\* filler of the idleTimeout or SIGINT handler the handler still calls
\* stopSpace.
C20_FillerNeverFailsOperation ==
    \A n \in DOMAIN last :
        last[n].ev = "filler.failed"
        => /\ last[n].a = 1 => (Did("start.done") /\ spaceStatus = HOSTING)
           /\ last[n].a \in {3, 4, 5} => ~Did("tick.throw")
           /\ last[n].a \in {5, 6, 7} => StopCalled

\* C21: once stopSpace has completed and every handleSpeakerRequest and
\* acceptSpeaker call that was suspended at an await has resumed and
\* finished, activeSpeakers and speakerQueue are empty: status IDLE with no
\* call in flight implies both lists are empty.
C21_StopSafeInFlight ==
    (spaceStatus = IDLE /\ stopT.pc = "idle" /\ handlers = {})
    => (activeSpeakers = <<>> /\ speakerQueue = <<>>)

\* C22: once stopPeriodicCheck has returned, no timer of the control loop is
\* pending and no further execution of the routine starts, also when it was
\* called while an execution was suspended at an await.
C22_StoppedLoopStaysStopped ==
    [][ loop'.stopped
        => /\ loop'.timers = 0
           /\ loop.stopped => loop'.running <= loop.running ]_vars

\* joinSpace, called with status IDLE, has just returned null
JoinReturnedNull ==
    \E i \in DOMAIN last : last[i].ev = "join.return" /\ last[i].a = 0

\* C23: when a joinSpace call that passed the status guard returns null
\* (joinAsListener or requestSpeaker failed), status is what it was before the
\* call and so is not PARTICIPATING: PARTICIPATING is left behind only by a
\* call that returns the space id. (A rejected call changes no field.)
C23_NullJoinLeavesStatus == JoinReturnedNull => spaceStatus /= PARTICIPATING

====
